---- MODULE Spec2Model ----
(***************************************************************************)
(* A model of adt::string_ref (include/adt/string-ref.h and                *)
(* src/adt/string-ref.cc): a non-owning (pointer, length) view over a      *)
(* character buffer, with its compare, search and slicing operations.      *)
(*                                                                         *)
(* Memory is an address space of 2^WordBits addresses.  Address 0 is the   *)
(* null pointer; the MemLen addresses from Base on are mapped and hold     *)
(* arbitrary bytes (the buffer a view refers to and whatever lies next to  *)
(* it), and every other address is unmapped.  Base lies in the middle of   *)
(* the address space, so that no index an operation is called with leads   *)
(* from the null pointer into the buffer.  size_t and pointer arithmetic   *)
(* wrap modulo 2^WordBits.  An access to an unmapped address is a fault    *)
(* (the process dies); a read of a mapped address outside the view returns *)
(* whatever byte the neighbouring memory holds.                            *)
(***************************************************************************)
EXTENDS Integers, Sequences, FiniteSets, TLC

VARIABLES mem, self, op, arg, out, orig, tracked

\* mem, self, op, arg, out: memory, the caller's view, and the call in hand.
\* orig is the view the caller started from; tracked says that self has been
\* derived from orig by slicing calls and found-separator split halves only.
vars == <<mem, self, op, arg, out, orig, tracked>>

\* ------------------------------------------------------------------ bounds
WordBits == 4
MemLen == 3
MaxPat == 2

\* ------------------------------------------------------- machine integers
NUL == 0
NULLPTR == 0
Wrap == 2 ^ WordBits
npos == Wrap - 1
capacity == npos

\* The bytes memory holds: NUL, 'A' and 'a'.
Chars == {NUL, 65, 97}

\* The first address of the buffer, and the addresses that are mapped.
Base == Wrap \div 2
Mapped == Base .. (Base + MemLen - 1)

Min(a, b) == IF b < a THEN b ELSE a
Max(a, b) == IF a < b THEN b ELSE a
Add(a, b) == (a + b) % Wrap
Sub(a, b) == (a - b + Wrap) % Wrap

\* ---------------------------------------------------------------- views
View(p, n) == [ps |-> p, len |-> n]

\* string_ref(): the default view, a null pointer and length 0
EmptyView == View(NULLPTR, 0)

\* The views a program can hold without having broken the type's contract:
\* the default view, and every range [ps, ps+len) of mapped memory (ps may be
\* the one-past-the-end pointer when len is 0).
Views ==
    {EmptyView} \cup
    {w \in [ps : Base .. (Base + MemLen), len : 0 .. MemLen] :
        w.ps + w.len <= Base + MemLen}

\* The arguments (indices, counts) the operations are called with.
SizeArgs == (0 .. (MemLen + 1)) \cup {npos - 1, npos}

\* The byte strings a pattern, a separator or a right-hand side can hold.
RECURSIVE StringsOfLen(_)
StringsOfLen(n) ==
    IF n = 0 THEN {<<>>}
    ELSE {Append(s, c) : s \in StringsOfLen(n - 1), c \in Chars}
Strings == UNION {StringsOfLen(n) : n \in 0 .. MaxPat}

\* The predicates find_if and rfind_if are called with, each as the set of
\* characters it holds of; their complements, which find_if_not and
\* rfind_if_not build, hold of NUL as well.
Preds == SUBSET (Chars \ {NUL})

\* ps[i]: the address the read goes to
AddrOf(v, i) == Add(v.ps, i)

\* empty()
empty(v) == v.len = 0

\* The bytes of a view that lies in mapped memory.
Bytes(v) == [k \in 1 .. v.len |-> mem[v.ps + k - 1]]

\* to_string(): std::string(ps, len), a copy of exactly len bytes
to_string(v) == Bytes(v)

\* ------------------------------------------------------------- results
Found(i, rd) == [ret |-> i, rd |-> rd, st |-> "ok"]
Fault(rd) == [ret |-> npos, rd |-> rd, st |-> "fault"]

\* ------------------------------------------------- search by character
RECURSIVE find_char_loop(_, _, _, _)
find_char_loop(v, c, i, rd) ==
    IF ~(i < v.len) THEN Found(npos, rd)
    ELSE IF AddrOf(v, i) \notin Mapped THEN Fault(rd \cup {i})
    ELSE IF c = mem[AddrOf(v, i)] THEN Found(i, rd \cup {i})
    ELSE find_char_loop(v, c, Add(i, 1), rd \cup {i})

find_char(v, c, start) ==
    IF start >= v.len THEN Found(npos, {})
    ELSE find_char_loop(v, c, start, {})

\* The loop condition i >= 0 holds of every size_t: the loop leaves only by
\* the return inside it, or by a fault.
RECURSIVE rfind_char_loop(_, _, _, _)
rfind_char_loop(v, c, i, rd) ==
    IF AddrOf(v, i) \notin Mapped THEN Fault(rd \cup {i})
    ELSE IF c = mem[AddrOf(v, i)] THEN Found(i, rd \cup {i})
    ELSE rfind_char_loop(v, c, Sub(i, 1), rd \cup {i})

rfind_char(v, c, rstart) ==
    rfind_char_loop(v, c, Min(rstart, Sub(v.len, 1)), {})

\* --------------------------------------------------- search by pattern
\* c_str() of a std::string handed to a function that takes a C string: the
\* callee sees the bytes before the first NUL.
RECURSIVE c_str(_)
c_str(s) ==
    IF s = <<>> \/ Head(s) = NUL THEN <<>>
    ELSE <<Head(s)>> \o c_str(Tail(s))

\* std::strstr(haystack, needle): the first position of the C string at hay
\* where needle occurs.  It reads the haystack up to its terminating NUL, not
\* up to any length; rd collects the offsets from hay it cannot avoid reading.
\* ret is the pointer returned (NULLPTR when there is no occurrence).
RECURSIVE strstr_at(_, _, _, _, _)
strstr_at(hay, needle, i, j, rd) ==
    IF j > Len(needle) THEN Found(Add(hay, i), rd)
    ELSE IF Add(hay, i + j - 1) \notin Mapped THEN Fault(rd \cup {i + j - 1})
    ELSE IF mem[Add(hay, i + j - 1)] = NUL THEN Found(NULLPTR, rd \cup {i + j - 1})
    ELSE IF mem[Add(hay, i + j - 1)] = needle[j]
         THEN strstr_at(hay, needle, i, j + 1, rd \cup {i + j - 1})
    ELSE strstr_at(hay, needle, i + 1, 1, rd \cup {i + j - 1})

strstr(hay, needle) == strstr_at(hay, needle, 0, 1, {})

find_str(v, pattern) ==
    IF Len(pattern) = 0 THEN Found(0, {})
    ELSE LET found == strstr(v.ps, c_str(pattern))
         IN  IF found.st # "ok" THEN found
             ELSE IF found.ret = NULLPTR THEN Found(npos, found.rd)
             ELSE Found(Sub(found.ret, v.ps), found.rd)

\* std::string::rfind(str): the last position where str occurs, npos if none
RECURSIVE string_rfind_from(_, _, _)
string_rfind_from(s, p, i) ==
    IF SubSeq(s, i + 1, i + Len(p)) = p THEN i
    ELSE IF i = 0 THEN npos
    ELSE string_rfind_from(s, p, i - 1)

string_rfind(s, p) ==
    IF Len(p) > Len(s) THEN npos
    ELSE string_rfind_from(s, p, Len(s) - Len(p))

rfind_str(v, pattern) ==
    IF Len(pattern) = 0 THEN Found(0, {})
    ELSE Found(string_rfind(to_string(v), pattern), 0 .. (v.len - 1))

\* ------------------------------------------------- search by predicate
\* A predicate is the set of characters it holds of.
RECURSIVE find_if_loop(_, _, _, _)
find_if_loop(v, pred, i, rd) ==
    IF i = v.len THEN Found(npos, rd)
    ELSE IF AddrOf(v, i) \notin Mapped THEN Fault(rd \cup {i})
    ELSE IF mem[AddrOf(v, i)] \in pred THEN Found(i, rd \cup {i})
    ELSE find_if_loop(v, pred, Add(i, 1), rd \cup {i})

find_if(v, pred, start) ==
    IF start >= v.len THEN Found(npos, {})
    ELSE find_if_loop(v, pred, start, {})

find_if_not(v, pred, start) == find_if(v, Chars \ pred, start)

RECURSIVE rfind_if_loop(_, _, _, _)
rfind_if_loop(v, pred, i, rd) ==
    IF AddrOf(v, i) \notin Mapped THEN Fault(rd \cup {i})
    ELSE IF mem[AddrOf(v, i)] \in pred THEN Found(i, rd \cup {i})
    ELSE rfind_if_loop(v, pred, Sub(i, 1), rd \cup {i})

rfind_if(v, pred, rstart) ==
    rfind_if_loop(v, pred, Min(rstart, Sub(v.len, 1)), {})

rfind_if_not(v, pred, rstart) == rfind_if(v, Chars \ pred, rstart)

\* ------------------------------------------------- equality and order
\* std::memcmp(lhs, rhs, n), n > 0: the difference of the first pair of bytes
\* (as unsigned char) that differ, 0 when none does.  The library loads both
\* ranges whole, whatever the position of the first difference: a range that
\* leaves mapped memory is a fault.
RECURSIVE memcmp_from(_, _, _, _)
memcmp_from(lhs, rhs, n, k) ==
    IF k = n THEN [ret |-> 0, st |-> "ok"]
    ELSE IF mem[Add(lhs, k)] # mem[Add(rhs, k)]
         THEN [ret |-> mem[Add(lhs, k)] - mem[Add(rhs, k)], st |-> "ok"]
    ELSE memcmp_from(lhs, rhs, n, k + 1)

memCompare(lhs, rhs, n) ==
    IF n = 0 THEN [ret |-> 0, st |-> "ok"]
    ELSE IF \E k \in 0 .. (n - 1) :
                Add(lhs, k) \notin Mapped \/ Add(rhs, k) \notin Mapped
         THEN [ret |-> 0, st |-> "fault"]
    ELSE memcmp_from(lhs, rhs, n, 0)

equals(v, rhs) ==
    IF v.len # rhs.len THEN [ret |-> FALSE, st |-> "ok"]
    ELSE LET m == memCompare(v.ps, rhs.ps, v.len)
         IN  [ret |-> (m.ret = 0), st |-> m.st]

\* compare, returning the difference memcmp reports instead of its sign
compare_raw(v, rhs) ==
    LET comp == memCompare(v.ps, rhs.ps, Min(v.len, rhs.len))
    IN  IF comp.st # "ok" THEN comp
        ELSE IF comp.ret # 0 THEN [ret |-> comp.ret, st |-> "ok"]
        ELSE IF v.len = rhs.len THEN [ret |-> 0, st |-> "ok"]
        ELSE [ret |-> IF v.len < rhs.len THEN -1 ELSE 1, st |-> "ok"]

compare(v, rhs) ==
    LET comp == memCompare(v.ps, rhs.ps, Min(v.len, rhs.len))
    IN  IF comp.st # "ok" THEN comp
        ELSE IF comp.ret # 0 THEN [ret |-> IF comp.ret < 0 THEN -1 ELSE 1, st |-> "ok"]
        ELSE IF v.len = rhs.len THEN [ret |-> 0, st |-> "ok"]
        ELSE [ret |-> IF v.len < rhs.len THEN -1 ELSE 1, st |-> "ok"]

\* operator==, !=, <, <=, >, >=
RelKinds == {"==", "!=", "<", "<=", ">", ">="}

relop(kind, lhs, rhs) ==
    LET e == equals(lhs, rhs)
        c == compare(lhs, rhs)
    IN  CASE kind = "==" -> e
          [] kind = "!=" -> [ret |-> ~e.ret, st |-> e.st]
          [] kind = "<"  -> [ret |-> c.ret < 0, st |-> c.st]
          [] kind = "<=" -> [ret |-> c.ret <= 0, st |-> c.st]
          [] kind = ">"  -> [ret |-> c.ret > 0, st |-> c.st]
          [] kind = ">=" -> [ret |-> c.ret >= 0, st |-> c.st]

\* ---------------------------------------------------------------- slicing
Ok(w) == [view |-> w, st |-> "ok"]
\* assert(cond) with cond false: the process aborts, nothing is returned
Abort == [st |-> "abort"]

\* substr, clamping the end start + num instead of the count
substr_end_overflow(v, start, num) ==
    LET s == Min(start, v.len)
    IN  View(Add(v.ps, s), Sub(Min(Add(s, num), v.len), s))

substr(v, start, num) ==
    LET s == Min(start, v.len)
    IN  View(Add(v.ps, s), Min(num, Sub(v.len, s)))

\* slice, without the swap of start > end
slice_no_swap(v, start, end) ==
    LET s == Min(start, v.len)
        e == Min(Max(s, end), v.len)
    IN  View(Add(v.ps, s), Sub(e, s))

slice(v, start, end) ==
    LET lo == IF start > end THEN end ELSE start
        hi == IF start > end THEN start ELSE end
        s == Min(lo, v.len)
        e == Min(Max(s, hi), v.len)
    IN  View(Add(v.ps, s), Sub(e, s))

\* take_front, without the clamp of n to the length
take_front_unclamped(v, n) == View(v.ps, n)

take_front(v, n) == View(v.ps, Min(n, v.len))

\* take_front_while(pred): the find_if_not result is 'not found' (npos) when
\* every character satisfies pred
take_front_while(v, pred) ==
    LET n == find_if_not(v, pred, 0)
    IN  IF n.st # "ok" THEN [st |-> n.st] ELSE Ok(substr(v, 0, n.ret))

\* drop_front, without its contract check
drop_front_unchecked(v, n) == Ok(substr(v, n, capacity))

drop_front(v, n) ==
    IF ~(n <= v.len) THEN Abort
    ELSE Ok(substr(v, n, capacity))

drop_back(v, n) ==
    IF ~(n <= v.len) THEN Abort
    ELSE Ok(substr(v, 0, Sub(v.len, n)))

\* take_back, without the n <= len test
take_back_unguarded(v, n) == drop_front(v, Sub(v.len, n))

take_back(v, n) ==
    IF n <= v.len THEN drop_front(v, Sub(v.len, n)) ELSE Ok(v)

\* ------------------------------------------------------- character access
\* operator[], with the contract check off by one (pos <= len)
subscript_off_by_one(v, pos) ==
    IF ~(pos <= v.len) THEN Abort
    ELSE IF AddrOf(v, pos) \notin Mapped THEN [ret |-> NUL, st |-> "fault"]
    ELSE [ret |-> mem[AddrOf(v, pos)], st |-> "ok"]

\* operator[](pos)
subscript(v, pos) ==
    IF ~(pos < v.len) THEN Abort
    ELSE IF AddrOf(v, pos) \notin Mapped THEN [ret |-> NUL, st |-> "fault"]
    ELSE [ret |-> mem[AddrOf(v, pos)], st |-> "ok"]

front(v) ==
    IF empty(v) THEN Abort
    ELSE IF AddrOf(v, 0) \notin Mapped THEN [ret |-> NUL, st |-> "fault"]
    ELSE [ret |-> mem[AddrOf(v, 0)], st |-> "ok"]

back(v) ==
    IF empty(v) THEN Abort
    ELSE IF AddrOf(v, Sub(v.len, 1)) \notin Mapped THEN [ret |-> NUL, st |-> "fault"]
    ELSE [ret |-> mem[AddrOf(v, Sub(v.len, 1))], st |-> "ok"]

\* ----------------------------------------------------------- cstr_tolower
\* c | 0x60: bits 5 and 6 of the byte set
BitOr60(c) == c - ((c \div 32) % 4) * 32 + 96

\* cstr_tolower(pstr): every byte from pstr up to the first NUL is rewritten
\* in place, 'A'..'Z' with bits 5 and 6 set.  A string with no NUL in mapped
\* memory takes the loop off the end of it.
RECURSIVE cstr_tolower_loop(_, _)
cstr_tolower_loop(m, p) ==
    IF p \notin Mapped THEN [mem |-> m, st |-> "fault"]
    ELSE IF m[p] = NUL THEN [mem |-> m, st |-> "ok"]
    ELSE cstr_tolower_loop(
             [m EXCEPT ![p] = IF m[p] >= 65 /\ m[p] <= 90 THEN BitOr60(m[p]) ELSE m[p]],
             Add(p, 1))

cstr_tolower(m, pstr) == cstr_tolower_loop(m, pstr)

\* ---------------------------------------------------------- edit distance
\* std::tolower in the "C" locale
tolower(c) == IF c \in 65 .. 90 THEN c + 32 ELSE c

\* The two views are taken by the bytes they hold: s1[i - 1] of the code,
\* which operator[] reads at an index below the length, is s1[i] here.
\* s1[i - 1] == s2[j - 1], or the same on the lower-cased characters
SameChar(s1, s2, i, j, case_sensitive) ==
    IF case_sensitive
    THEN s1[i] = s2[j]
    ELSE tolower(s1[i]) = tolower(s2[j])

\* the inner loop over j: dp is the row being filled, dpPrev the row before
RECURSIVE edit_row(_, _, _, _, _, _, _)
edit_row(s1, s2, case_sensitive, i, j, dp, dpPrev) ==
    IF j > Len(s2) THEN dp
    ELSE edit_row(s1, s2, case_sensitive, i, j + 1,
                  [dp EXCEPT ![j] =
                      IF SameChar(s1, s2, i, j, case_sensitive)
                      THEN dpPrev[j - 1]
                      ELSE Min(dpPrev[j - 1] + 1, Min(dp[j - 1] + 1, dpPrev[j] + 1))],
                  dpPrev)

\* the outer loop, without the dp[0] = i that starts each row
RECURSIVE edit_rows_first_column_stale(_, _, _, _, _, _)
edit_rows_first_column_stale(s1, s2, case_sensitive, i, dp, dpPrev) ==
    IF i > Len(s1) THEN dp
    ELSE edit_rows_first_column_stale(s1, s2, case_sensitive, i + 1,
                   edit_row(s1, s2, case_sensitive, i, 1, dpPrev, dp),
                   dp)

edit_distance_first_column_stale(s1, s2, case_sensitive) ==
    IF Len(s1) = 0 \/ Len(s2) = 0 THEN [ret |-> Add(Len(s1), Len(s2)), st |-> "ok"]
    ELSE [ret |-> edit_rows_first_column_stale(s1, s2, case_sensitive, 1,
                      [j \in 0 .. Len(s2) |-> j], [j \in 0 .. Len(s2) |-> 0])[Len(s2)],
          st |-> "ok"]

\* the outer loop over i: swap(dp, dpPrev), dp[0] = i, then the row
RECURSIVE edit_rows(_, _, _, _, _, _)
edit_rows(s1, s2, case_sensitive, i, dp, dpPrev) ==
    IF i > Len(s1) THEN dp
    ELSE edit_rows(s1, s2, case_sensitive, i + 1,
                   edit_row(s1, s2, case_sensitive, i, 1, [dpPrev EXCEPT ![0] = i], dp),
                   dp)

edit_distance(s1, s2, case_sensitive) ==
    IF Len(s1) = 0 \/ Len(s2) = 0 THEN [ret |-> Add(Len(s1), Len(s2)), st |-> "ok"]
    ELSE [ret |-> edit_rows(s1, s2, case_sensitive, 1,
                            [j \in 0 .. Len(s2) |-> j], [j \in 0 .. Len(s2) |-> 0])[Len(s2)],
          st |-> "ok"]

\* ------------------------------------------------------------------ count
\* count_str, stepping over a match instead of trying every start position
RECURSIVE count_str_skipping_loop(_, _, _, _, _)
count_str_skipping_loop(v, pattern, i, e, count) ==
    IF i >= e THEN [ret |-> count, st |-> "ok"]
    ELSE LET eq == equals(substr(v, i, pattern.len), pattern)
         IN  IF eq.st # "ok" THEN [ret |-> count, st |-> eq.st]
             ELSE IF eq.ret
                  THEN count_str_skipping_loop(v, pattern, i + Max(pattern.len, 1), e,
                                               Add(count, 1))
             ELSE count_str_skipping_loop(v, pattern, i + 1, e, count)

count_str_skipping(v, pattern) ==
    IF pattern.len > v.len THEN [ret |-> 0, st |-> "ok"]
    ELSE count_str_skipping_loop(v, pattern, 0, Add(Sub(v.len, pattern.len), 1), 0)

RECURSIVE count_str_loop(_, _, _, _, _)
count_str_loop(v, pattern, i, e, count) ==
    IF i = e THEN [ret |-> count, st |-> "ok"]
    ELSE LET eq == equals(substr(v, i, pattern.len), pattern)
         IN  IF eq.st # "ok" THEN [ret |-> count, st |-> eq.st]
             ELSE count_str_loop(v, pattern, Add(i, 1), e,
                                 IF eq.ret THEN Add(count, 1) ELSE count)

count_str(v, pattern) ==
    IF pattern.len > v.len THEN [ret |-> 0, st |-> "ok"]
    ELSE count_str_loop(v, pattern, 0, Add(Sub(v.len, pattern.len), 1), 0)

\* ------------------------------------------------------------------ split
Pair(pos, v, seplen) ==
    IF pos.st # "ok" THEN [st |-> pos.st, rd |-> pos.rd]
    ELSE IF pos.ret = npos
         THEN [first |-> v, second |-> EmptyView, st |-> "ok", rd |-> pos.rd,
               pos |-> npos]
    ELSE [first |-> slice(v, 0, pos.ret),
          second |-> slice(v, Add(pos.ret, seplen), v.len),
          st |-> "ok", rd |-> pos.rd, pos |-> pos.ret]

split_char(v, sep) == Pair(find_char(v, sep, 0), v, 1)
split_str(v, sep) == Pair(find_str(v, sep), v, Len(sep))
rsplit_char(v, sep) == Pair(rfind_char(v, sep, npos), v, 1)
rsplit_str(v, sep) == Pair(rfind_str(v, sep), v, Len(sep))

\* ------------------------------------------------------------ the machine
\* One caller, one call at a time: op is "init" between calls, and names the
\* operation whose result is in out after a call.
Init ==
    /\ mem \in [Mapped -> Chars]
    /\ self \in Views
    /\ orig = self
    /\ tracked = TRUE
    /\ op = "init"
    /\ arg = <<>>
    /\ out = <<>>

FindChar ==
    \E c \in Chars, start \in SizeArgs :
        /\ op = "init"
        /\ op' = "find_char"
        /\ arg' = [c |-> c, start |-> start]
        /\ out' = find_char(self, c, start)
        /\ UNCHANGED <<mem, self, orig, tracked>>

RfindChar ==
    \E c \in Chars, rstart \in SizeArgs :
        /\ op = "init"
        /\ op' = "rfind_char"
        /\ arg' = [c |-> c, rstart |-> rstart]
        /\ out' = rfind_char(self, c, rstart)
        /\ UNCHANGED <<mem, self, orig, tracked>>

FindStr ==
    \E pattern \in Strings :
        /\ op = "init"
        /\ op' = "find_str"
        /\ arg' = [pattern |-> pattern]
        /\ out' = find_str(self, pattern)
        /\ UNCHANGED <<mem, self, orig, tracked>>

RfindStr ==
    \E pattern \in Strings :
        /\ op = "init"
        /\ op' = "rfind_str"
        /\ arg' = [pattern |-> pattern]
        /\ out' = rfind_str(self, pattern)
        /\ UNCHANGED <<mem, self, orig, tracked>>

FindIf ==
    \E pred \in Preds, start \in SizeArgs :
        /\ op = "init"
        /\ op' = "find_if"
        /\ arg' = [pred |-> pred, start |-> start]
        /\ out' = find_if(self, pred, start)
        /\ UNCHANGED <<mem, self, orig, tracked>>

FindIfNot ==
    \E pred \in Preds, start \in SizeArgs :
        /\ op = "init"
        /\ op' = "find_if_not"
        /\ arg' = [pred |-> pred, start |-> start]
        /\ out' = find_if_not(self, pred, start)
        /\ UNCHANGED <<mem, self, orig, tracked>>

RfindIf ==
    \E pred \in Preds, rstart \in SizeArgs :
        /\ op = "init"
        /\ op' = "rfind_if"
        /\ arg' = [pred |-> pred, rstart |-> rstart]
        /\ out' = rfind_if(self, pred, rstart)
        /\ UNCHANGED <<mem, self, orig, tracked>>

RfindIfNot ==
    \E pred \in Preds, rstart \in SizeArgs :
        /\ op = "init"
        /\ op' = "rfind_if_not"
        /\ arg' = [pred |-> pred, rstart |-> rstart]
        /\ out' = rfind_if_not(self, pred, rstart)
        /\ UNCHANGED <<mem, self, orig, tracked>>

Compare ==
    \E rhs \in Views :
        /\ op = "init"
        /\ op' = "compare"
        /\ arg' = [rhs |-> rhs]
        /\ out' = compare(self, rhs)
        /\ UNCHANGED <<mem, self, orig, tracked>>

Equals ==
    \E rhs \in Views :
        /\ op = "init"
        /\ op' = "equals"
        /\ arg' = [rhs |-> rhs]
        /\ out' = equals(self, rhs)
        /\ UNCHANGED <<mem, self, orig, tracked>>

RelOp ==
    \E kind \in RelKinds, rhs \in Views :
        /\ op = "init"
        /\ op' = "relop"
        /\ arg' = [kind |-> kind, rhs |-> rhs]
        /\ out' = relop(kind, self, rhs)
        /\ UNCHANGED <<mem, self, orig, tracked>>

Substr ==
    \E start \in SizeArgs, num \in SizeArgs :
        /\ op = "init"
        /\ op' = "substr"
        /\ arg' = [start |-> start, num |-> num]
        /\ out' = Ok(substr(self, start, num))
        /\ UNCHANGED <<mem, self, orig, tracked>>

Slice ==
    \E start \in SizeArgs, end \in SizeArgs :
        /\ op = "init"
        /\ op' = "slice"
        /\ arg' = [start |-> start, end |-> end]
        /\ out' = Ok(slice(self, start, end))
        /\ UNCHANGED <<mem, self, orig, tracked>>

TakeFront ==
    \E n \in SizeArgs :
        /\ op = "init"
        /\ op' = "take_front"
        /\ arg' = [n |-> n]
        /\ out' = Ok(take_front(self, n))
        /\ UNCHANGED <<mem, self, orig, tracked>>

TakeBack ==
    \E n \in SizeArgs :
        /\ op = "init"
        /\ op' = "take_back"
        /\ arg' = [n |-> n]
        /\ out' = take_back(self, n)
        /\ UNCHANGED <<mem, self, orig, tracked>>

DropFront ==
    \E n \in SizeArgs :
        /\ op = "init"
        /\ op' = "drop_front"
        /\ arg' = [n |-> n]
        /\ out' = drop_front(self, n)
        /\ UNCHANGED <<mem, self, orig, tracked>>

DropBack ==
    \E n \in SizeArgs :
        /\ op = "init"
        /\ op' = "drop_back"
        /\ arg' = [n |-> n]
        /\ out' = drop_back(self, n)
        /\ UNCHANGED <<mem, self, orig, tracked>>

SplitChar ==
    \E sep \in Chars :
        /\ op = "init"
        /\ op' = "split_char"
        /\ arg' = [sep |-> sep]
        /\ out' = split_char(self, sep)
        /\ UNCHANGED <<mem, self, orig, tracked>>

SplitStr ==
    \E sep \in Strings :
        /\ op = "init"
        /\ op' = "split_str"
        /\ arg' = [sep |-> sep]
        /\ out' = split_str(self, sep)
        /\ UNCHANGED <<mem, self, orig, tracked>>

RsplitChar ==
    \E sep \in Chars :
        /\ op = "init"
        /\ op' = "rsplit_char"
        /\ arg' = [sep |-> sep]
        /\ out' = rsplit_char(self, sep)
        /\ UNCHANGED <<mem, self, orig, tracked>>

RsplitStr ==
    \E sep \in Strings :
        /\ op = "init"
        /\ op' = "rsplit_str"
        /\ arg' = [sep |-> sep]
        /\ out' = rsplit_str(self, sep)
        /\ UNCHANGED <<mem, self, orig, tracked>>

CountStr ==
    \E pattern \in Views :
        /\ op = "init"
        /\ op' = "count_str"
        /\ arg' = [pattern |-> pattern]
        /\ out' = count_str(self, pattern)
        /\ UNCHANGED <<mem, self, orig, tracked>>

EditDistance ==
    \E rhs \in Strings, case_sensitive \in BOOLEAN :
        /\ op = "init"
        /\ op' = "edit_distance"
        /\ arg' = [rhs |-> rhs, case_sensitive |-> case_sensitive]
        /\ out' = edit_distance(Bytes(self), rhs, case_sensitive)
        /\ UNCHANGED <<mem, self, orig, tracked>>

Subscript ==
    \E pos \in SizeArgs :
        /\ op = "init"
        /\ op' = "subscript"
        /\ arg' = [pos |-> pos]
        /\ out' = subscript(self, pos)
        /\ UNCHANGED <<mem, self, orig, tracked>>

Front ==
    /\ op = "init"
    /\ op' = "front"
    /\ arg' = <<>>
    /\ out' = front(self)
    /\ UNCHANGED <<mem, self, orig, tracked>>

Back ==
    /\ op = "init"
    /\ op' = "back"
    /\ arg' = <<>>
    /\ out' = back(self)
    /\ UNCHANGED <<mem, self, orig, tracked>>

TakeFrontWhile ==
    \E pred \in Preds :
        /\ op = "init"
        /\ op' = "take_front_while"
        /\ arg' = [pred |-> pred]
        /\ out' = take_front_while(self, pred)
        /\ UNCHANGED <<mem, self, orig, tracked>>

SliceOps == {"substr", "slice", "take_front", "take_front_while", "take_back",
             "drop_front", "drop_back"}
SplitOps == {"split_char", "split_str", "rsplit_char", "rsplit_str"}

\* string_ref &operator=(const string_ref &): the caller re-points its view
\* to the view a slicing call returned, or to a half a split returned, and
\* goes on from it as from a new starting view.
Assign ==
    /\ op \in SliceOps \cup SplitOps
    /\ out.st = "ok"
    /\ \/ op \in SliceOps /\ self' = out.view
       \/ op \in SplitOps /\ self' \in {out.first, out.second}
    /\ orig' = self'
    /\ tracked' = TRUE
    /\ op' = "init"
    /\ arg' = <<>>
    /\ out' = <<>>
    /\ UNCHANGED mem

\* The same assignment, in a caller that remembers the view it started from:
\* a half of a split that found no separator (pos == npos) ends the tracking.
Derive ==
    /\ op \in SliceOps \cup SplitOps
    /\ out.st = "ok"
    /\ \/ op \in SliceOps /\ self' = out.view
       \/ op \in SplitOps /\ self' \in {out.first, out.second}
    /\ tracked' = (tracked /\ (op \in SplitOps => out.pos # npos))
    /\ op' = "init"
    /\ arg' = <<>>
    /\ out' = <<>>
    /\ UNCHANGED <<mem, orig>>

\* cstr_tolower(pstr) on a pointer into the buffer the views refer to
CstrTolower ==
    \E pstr \in Mapped :
        /\ op = "init"
        /\ op' = "cstr_tolower"
        /\ arg' = [pstr |-> pstr]
        /\ mem' = cstr_tolower(mem, pstr).mem
        /\ out' = [st |-> cstr_tolower(mem, pstr).st]
        /\ UNCHANGED <<self, orig, tracked>>

\* The caller takes the result and goes on; a call that faulted or aborted
\* has ended the process.
Return ==
    /\ op # "init"
    /\ out.st = "ok"
    /\ op' = "init"
    /\ arg' = <<>>
    /\ out' = <<>>
    /\ UNCHANGED <<mem, self, orig, tracked>>

Next ==
    \/ FindChar
    \/ RfindChar
    \/ FindStr
    \/ RfindStr
    \/ FindIf
    \/ FindIfNot
    \/ RfindIf
    \/ RfindIfNot
    \/ Compare
    \/ Equals
    \/ RelOp
    \/ Substr
    \/ Slice
    \/ TakeFront
    \/ TakeBack
    \/ DropFront
    \/ DropBack
    \/ SplitChar
    \/ SplitStr
    \/ RsplitChar
    \/ RsplitStr
    \/ CountStr
    \/ EditDistance
    \/ Subscript
    \/ Front
    \/ Back
    \/ TakeFrontWhile
    \/ CstrTolower
    \/ Assign
    \/ Return

Spec == Init /\ [][Next]_vars

\* A caller that only slices and splits, re-pointing its view to a result
\* each time and remembering the view it started from.
NextSeq ==
    \/ Substr
    \/ Slice
    \/ TakeFront
    \/ TakeFrontWhile
    \/ TakeBack
    \/ DropFront
    \/ DropBack
    \/ SplitChar
    \/ SplitStr
    \/ RsplitChar
    \/ RsplitStr
    \/ Derive
    \/ Return

SpecSeq == Init /\ [][NextSeq]_vars

\* ======================================================================
\* What the operations are specified to compute, stated over the bytes of
\* the view alone.
\* ======================================================================
SearchOps == {"find_char", "rfind_char", "find_str", "rfind_str",
              "find_if", "find_if_not", "rfind_if", "rfind_if_not"}

\* the indices of a view: [0, length)
Indices(v) == 0 .. (v.len - 1)

SetMin(S) == CHOOSE x \in S : \A y \in S : x <= y
SetMax(S) == CHOOSE x \in S : \A y \in S : y <= x

\* pattern p occurs in v at index i, wholly inside [0, length)
OccursAt(v, p, i) ==
    /\ i >= 0
    /\ i + Len(p) <= v.len
    /\ \A k \in 1 .. Len(p) : mem[v.ps + i + k - 1] = p[k]

Occurrences(v, p) == {i \in 0 .. v.len : OccursAt(v, p, i)}

\* the indices rfind(c, rstart) may answer with
RfindCandidates(v, c, rstart) ==
    {i \in Indices(v) : i <= rstart /\ mem[v.ps + i] = c}

\* C1: every search operation reads only characters at indices in
\* [0, length) of the view; it never reads data[length] or any index outside.
C1_SearchReadsInsideView ==
    op \in SearchOps => out.rd \subseteq Indices(self)

\* C2: rfind(c, rstart) returns the largest index i <= min(rstart, length-1)
\* with v[i] = c, and npos when there is none (also on an empty view); the
\* scan ends with that answer for every input.
C2_RfindCharLastIndex ==
    op = "rfind_char" =>
        /\ out.st = "ok"
        /\ out.ret = IF RfindCandidates(self, arg.c, arg.rstart) = {} THEN npos
                     ELSE SetMax(RfindCandidates(self, arg.c, arg.rstart))

\* C3: find(p) returns 0 for an empty p, else the smallest index where p
\* occurs wholly inside [0, length), else npos; the answer depends only on
\* the bytes inside the view and the pattern.
C3_FindStrFirstOccurrence ==
    op = "find_str" =>
        /\ out.st = "ok"
        /\ out.ret = IF Len(arg.pattern) = 0 THEN 0
                     ELSE IF Occurrences(self, arg.pattern) = {} THEN npos
                     ELSE SetMin(Occurrences(self, arg.pattern))

\* the split of v around the occurrence of a separator of length m at pos
HalvesAt(v, pos, m) ==
    [first |-> View(v.ps, pos), second |-> View(v.ps + pos + m, v.len - pos - m)]

\* An empty pattern matches at index 0 in both directions.
FirstOccurrence(v, p) == IF p = <<>> THEN 0 ELSE SetMin(Occurrences(v, p))
LastOccurrence(v, p) == IF p = <<>> THEN 0 ELSE SetMax(Occurrences(v, p))

\* the separator of the split call whose result is in out, as a pattern
SepOfCall == IF op \in {"split_char", "rsplit_char"} THEN <<arg.sep>> ELSE arg.sep

SplitIsAt(pos) ==
    /\ out.st = "ok"
    /\ out.first = HalvesAt(self, pos, Len(SepOfCall)).first
    /\ out.second = HalvesAt(self, pos, Len(SepOfCall)).second
    /\ Bytes(out.first) \o SepOfCall \o Bytes(out.second) = Bytes(self)

\* C4: when sep occurs in v, split(sep) returns (v[0..pos), v[pos+len(sep)..))
\* with pos the first occurrence of sep, rsplit(sep) the same with pos the
\* last occurrence; first + sep + second reproduces v.
C4_SplitAroundOccurrence ==
    (op \in SplitOps /\ Occurrences(self, SepOfCall) # {}) =>
        IF op \in {"split_char", "split_str"}
        THEN SplitIsAt(FirstOccurrence(self, SepOfCall))
        ELSE SplitIsAt(LastOccurrence(self, SepOfCall))

\* C5: when sep does not occur in v, all four of split(char), split(pattern),
\* rsplit(char) and rsplit(pattern) return (v, empty view) as an ordinary
\* result.
C5_SplitNotFoundKeepsWhole ==
    (op \in SplitOps /\ Occurrences(self, SepOfCall) = {}) =>
        /\ out.st = "ok"
        /\ out.first = self
        /\ out.second.len = 0

\* lexicographic order of byte strings, the shorter first on a tie
LexCompare(a, b) ==
    LET n == Min(Len(a), Len(b))
        D == {k \in 1 .. n : a[k] # b[k]}
    IN  IF D # {} THEN (IF a[SetMin(D)] < b[SetMin(D)] THEN -1 ELSE 1)
        ELSE IF Len(a) = Len(b) THEN 0
        ELSE IF Len(a) < Len(b) THEN -1 ELSE 1

RelOf(kind, c) ==
    CASE kind = "==" -> c = 0
      [] kind = "!=" -> c # 0
      [] kind = "<"  -> c < 0
      [] kind = "<=" -> c <= 0
      [] kind = ">"  -> c > 0
      [] kind = ">=" -> c >= 0

\* C6: compare returns -1, 0 or 1, the lexicographic byte order with the
\* shorter view first on a tie; it is 0 exactly when equals and == hold; it is
\* antisymmetric and transitive; the six operators agree with it; empty views
\* are equal whatever their data pointers.
C6_CompareIsTotalOrder ==
    /\ op = "compare" =>
        /\ out.st = "ok"
        /\ out.ret \in {-1, 0, 1}
        /\ out.ret = LexCompare(Bytes(self), Bytes(arg.rhs))
        /\ (out.ret = 0) <=> equals(self, arg.rhs).ret
        /\ (out.ret = 0) <=> relop("==", self, arg.rhs).ret
        /\ compare(arg.rhs, self).ret = -out.ret
        /\ \A c \in Views :
              (out.ret <= 0 /\ compare(arg.rhs, c).ret <= 0) =>
                  compare(self, c).ret <= 0
        /\ (self.len = 0 /\ arg.rhs.len = 0) => out.ret = 0
    /\ op = "equals" =>
        /\ out.st = "ok"
        /\ out.ret = (Bytes(self) = Bytes(arg.rhs))
    /\ op = "relop" =>
        /\ out.st = "ok"
        /\ out.ret = RelOf(arg.kind, compare(self, arg.rhs).ret)
        /\ out.ret = RelOf(arg.kind, LexCompare(Bytes(self), Bytes(arg.rhs)))

\* compare has decided a tie on the common prefix by the lengths
C6_Witness ==
    /\ op = "compare"
    /\ self.len >= 1
    /\ arg.rhs.len > self.len
    /\ Bytes(self) = SubSeq(Bytes(arg.rhs), 1, self.len)
    /\ self.ps # arg.rhs.ps
    /\ out.ret = -1

\* C7: slice(start, end) is the view over [min(lo, length), min(hi, length))
\* with lo and hi the smaller and the larger of start and end; so it equals
\* slice(end, start), and slice(i, i) is empty.
C7_SliceIsClampedRange ==
    op = "slice" =>
        LET lo == Min(arg.start, arg.end)
            hi == Max(arg.start, arg.end)
        IN  /\ out.st = "ok"
            /\ out.view = View(self.ps + Min(lo, self.len),
                               Min(hi, self.len) - Min(lo, self.len))
            /\ out.view = slice(self, arg.end, arg.start)
            /\ Bytes(out.view) = SubSeq(Bytes(self), lo + 1, Min(hi, self.len))
            /\ arg.start = arg.end => out.view.len = 0

\* slice called with start > end has returned a non-empty view
C7_Witness ==
    /\ op = "slice"
    /\ arg.start > arg.end
    /\ arg.start = npos
    /\ out.view.len >= 2

\* C8: substr(start, count) starts at offset s = min(start, length) and has
\* length min(count, length - s), with no overflow of start + count;
\* substr(0, npos) is v, and substr(2, 4) of a view of length 3 is its last
\* character.
C8_SubstrIsClamped ==
    op = "substr" =>
        LET s == Min(arg.start, self.len)
        IN  /\ out.st = "ok"
            /\ out.view = View(self.ps + s, Min(arg.num, self.len - s))
            /\ Bytes(out.view) =
                   SubSeq(Bytes(self), s + 1, Min(s + arg.num, self.len))
            /\ (arg.start = 0 /\ arg.num = npos) => out.view = self
            /\ (self.len = 3 /\ arg.start = 2 /\ arg.num = 4) =>
                   Bytes(out.view) = <<Bytes(self)[3]>>

\* substr(start, npos) with 0 < start < length: start + count would overflow
C8_Witness ==
    /\ op = "substr"
    /\ arg.start >= 1
    /\ arg.start < self.len
    /\ arg.num = npos
    /\ out.view.len = self.len - arg.start

\* C9: drop_front(n) and drop_back(n) with n <= length return v[n..length)
\* and v[0..length-n), of length exactly length - n; with n > length they
\* abort on the contract check and return nothing.
C9_DropIsExactOrAborts ==
    /\ op = "drop_front" =>
        IF arg.n <= self.len
        THEN /\ out.st = "ok"
             /\ out.view = View(self.ps + arg.n, self.len - arg.n)
             /\ Bytes(out.view) = SubSeq(Bytes(self), arg.n + 1, self.len)
        ELSE out = Abort
    /\ op = "drop_back" =>
        IF arg.n <= self.len
        THEN /\ out.st = "ok"
             /\ out.view = View(self.ps, self.len - arg.n)
             /\ Bytes(out.view) = SubSeq(Bytes(self), 1, self.len - arg.n)
        ELSE out = Abort

\* drop_front or drop_back asked to drop more than a non-empty view holds
C9_Witness ==
    /\ op \in {"drop_front", "drop_back"}
    /\ self.len >= 1
    /\ arg.n > self.len
    /\ out.st = "abort"

\* C10: take_front(n) is the first and take_back(n) the last min(n, length)
\* characters of v, for every n; neither aborts, and both return v itself
\* when n >= length.
C10_TakeIsClamped ==
    /\ op = "take_front" =>
        /\ out.st = "ok"
        /\ out.view = View(self.ps, Min(arg.n, self.len))
        /\ Bytes(out.view) = SubSeq(Bytes(self), 1, Min(arg.n, self.len))
        /\ arg.n >= self.len => out.view = self
    /\ op = "take_back" =>
        /\ out.st = "ok"
        /\ out.view = View(self.ps + self.len - Min(arg.n, self.len),
                           Min(arg.n, self.len))
        /\ Bytes(out.view) =
               SubSeq(Bytes(self), self.len - Min(arg.n, self.len) + 1, self.len)
        /\ arg.n >= self.len => out.view = self

\* take_back asked for more characters than a non-empty view holds
C10_Witness ==
    /\ op = "take_back"
    /\ self.len >= 1
    /\ arg.n > self.len
    /\ out.st = "ok"
    /\ out.view = self
\* C11: count_str(p) is the number of start positions i in
\* [0, length - len(p)] where v[i .. i+len(p)) equals p, overlapping
\* occurrences counted, and 0 when len(p) > length; the loop bound
\* length - len(p) + 1 is never formed from an underflowed subtraction.
C11_CountStrCountsOverlaps ==
    op = "count_str" =>
        /\ out.st = "ok"
        /\ out.ret = Cardinality(Occurrences(self, Bytes(arg.pattern)))
        /\ arg.pattern.len > self.len => out.ret = 0
        /\ arg.pattern.len <= self.len =>
               Add(Sub(self.len, arg.pattern.len), 1) = self.len - arg.pattern.len + 1

\* count_str has counted two occurrences that overlap
C11_Witness ==
    /\ op = "count_str"
    /\ arg.pattern.len = 2
    /\ self.len = 3
    /\ Occurrences(self, Bytes(arg.pattern)) = {0, 1}
    /\ out.ret = 2
\* the Levenshtein distance of two byte strings: the least number of
\* single-character insertions, deletions and substitutions turning a into b
RECURSIVE Levenshtein(_, _)
Levenshtein(a, b) ==
    IF a = <<>> THEN Len(b)
    ELSE IF b = <<>> THEN Len(a)
    ELSE Min(Levenshtein(Tail(a), Tail(b)) + (IF Head(a) = Head(b) THEN 0 ELSE 1),
             Min(Levenshtein(Tail(a), b) + 1, Levenshtein(a, Tail(b)) + 1))

\* C12: in case-sensitive mode edit_distance(a, b), computed with the two
\* rolling rows, is the Levenshtein distance of a and b; so it is symmetric,
\* 0 for equal views, and the other view's length against an empty view.
C12_EditDistanceIsLevenshtein ==
    (op = "edit_distance" /\ arg.case_sensitive) =>
        /\ out.st = "ok"
        /\ out.ret = Levenshtein(Bytes(self), arg.rhs)
        /\ out.ret = edit_distance(arg.rhs, Bytes(self), TRUE).ret
        /\ Bytes(self) = arg.rhs => out.ret = 0
        /\ Len(arg.rhs) = 0 => out.ret = self.len
        /\ self.len = 0 => out.ret = Len(arg.rhs)

\* a view of length 3 and one of length 2 that share no character
C12_Witness ==
    /\ op = "edit_distance"
    /\ arg.case_sensitive
    /\ self.len = 3
    /\ Len(arg.rhs) = 2
    /\ out.ret = 3
\* the indices find_if(pred, start) and rfind_if(pred, rstart) may answer with
FindIfCandidates(v, pred, start) ==
    {i \in Indices(v) : i >= start /\ mem[v.ps + i] \in pred}
RfindIfCandidates(v, pred, rstart) ==
    {i \in Indices(v) : i <= rstart /\ mem[v.ps + i] \in pred}

FirstOr(S) == IF S = {} THEN npos ELSE SetMin(S)
LastOr(S) == IF S = {} THEN npos ELSE SetMax(S)

\* C13: find_if(pred, start) returns the smallest index i >= start with
\* pred(v[i]), else npos; rfind_if(pred, rstart) returns the largest index
\* i <= min(rstart, length-1) with pred(v[i]), else npos, also on an empty
\* view; find_if_not and rfind_if_not are find_if and rfind_if of the negated
\* predicate.
C13_FindIfFirstAndLast ==
    /\ op = "find_if" =>
        /\ out.st = "ok"
        /\ out.ret = FirstOr(FindIfCandidates(self, arg.pred, arg.start))
    /\ op = "find_if_not" =>
        /\ out.st = "ok"
        /\ out.ret = FirstOr(FindIfCandidates(self, Chars \ arg.pred, arg.start))
        /\ out = find_if(self, Chars \ arg.pred, arg.start)
    /\ op = "rfind_if" =>
        /\ out.st = "ok"
        /\ out.ret = LastOr(RfindIfCandidates(self, arg.pred, arg.rstart))
    /\ op = "rfind_if_not" =>
        /\ out.st = "ok"
        /\ out.ret = LastOr(RfindIfCandidates(self, Chars \ arg.pred, arg.rstart))
        /\ out = rfind_if(self, Chars \ arg.pred, arg.rstart)
\* C14: v[i] returns the character at offset i when i < length, front() and
\* back() the first and the last character of a non-empty view; v[i] with
\* i >= length, and front() or back() of an empty view, abort and return
\* nothing.
C14_AccessIsCheckedOrAborts ==
    /\ op = "subscript" =>
        IF arg.pos < self.len
        THEN out = [ret |-> Bytes(self)[arg.pos + 1], st |-> "ok"]
        ELSE out = Abort
    /\ op = "front" =>
        IF self.len > 0
        THEN out = [ret |-> Bytes(self)[1], st |-> "ok"]
        ELSE out = Abort
    /\ op = "back" =>
        IF self.len > 0
        THEN out = [ret |-> Bytes(self)[self.len], st |-> "ok"]
        ELSE out = Abort

\* v[length] of a non-empty view whose buffer goes on past it
C14_Witness ==
    /\ op = "subscript"
    /\ self.len >= 1
    /\ arg.pos = self.len
    /\ self.ps + self.len \in Mapped
    /\ out = Abort
\* w is a sub-range of v
SubRange(w, v) ==
    /\ v.ps <= w.ps
    /\ w.ps + w.len <= v.ps + v.len

\* C15: after any finite sequence of non-failing slicing operations (substr,
\* slice, take_front, take_front_while, take_back, drop_front, drop_back, and
\* either half of a split or rsplit that found its separator), the view is a
\* sub-range of the view the sequence started from; so is every view such a
\* call returns.
C15_SlicesStayInsideOriginal ==
    tracked =>
        /\ SubRange(self, orig)
        /\ (op \in SliceOps /\ out.st = "ok") => SubRange(out.view, orig)
        /\ (op \in SplitOps /\ out.st = "ok" /\ out.pos # npos) =>
               (SubRange(out.first, orig) /\ SubRange(out.second, orig))

\* a second-level slice: a call on a view strictly inside the original has
\* returned a view that is smaller again
C15_Witness ==
    /\ tracked
    /\ op \in SliceOps \cup SplitOps
    /\ out.st = "ok"
    /\ self # orig
    /\ self.len >= 2
    /\ orig.len > self.len
    /\ op \in SliceOps => (out.view.len = 1 /\ out.view.ps > self.ps)
    /\ op \in SplitOps => (out.pos # npos /\ out.second.len = 1)
====
